---- MODULE Spec2Model ----
(***************************************************************************)
(* Model of class SistemaTelecom (deepseek_python_20250428_5dae0e.py): an  *)
(* ASK link made of generar_bits, modulacion_ask, agregar_ruido,           *)
(* demodulacion_ask and calcular_ber, all acting on one instance.          *)
(*                                                                         *)
(* Numbers.  Rates, bit counts and sample indices are integers.  A time    *)
(* stamp is an exact fraction <<num, den>> in lowest terms.  A sample of   *)
(* the waveform is either Zero (the 0.0 written by np.zeros_like) or the   *)
(* term <<"sin", amplitud, fc, t>> standing for amplitud*sin(2*pi*fc*t).   *)
(* A signal is [samples, ruido]: ruido says what was added to the samples  *)
(* ("exact": nothing or exact zeros, "gauss": finite Gaussian draws,       *)
(* "nonfinite": NaN/inf draws).  The filter of demodulacion_ask is causal  *)
(* and linear, so its output is exactly 0 while every input so far is 0;   *)
(* any other output is left open (either side of the threshold).           *)
(***************************************************************************)
EXTENDS Integers, Sequences, FiniteSets, TLC

\* ---------------------------------------------------------------- bounds
MaxBits == 2          \* longest bit sequence generated or modulated
MaxTasa == 2          \* tasa_bits ranges over 1..MaxTasa
MaxFs == 3            \* frecuencia_muestreo ranges over 1..MaxFs

FcValues == {1}              \* frecuencia_portadora
AmpValues == {2}             \* amplitud
SnrValues == {-4000, 10, 4000}   \* snr_db
UmbralDoble == {-2, 1}       \* 2*umbral: umbral = -1.0 and umbral = 0.5

\* ------------------------------------------------------ float64 constants
\* 10.0 ** e overflows (OverflowError) above this exponent ...
FloatMaxExp10 == 308
\* ... and underflows to 0.0 below this one.
FloatMinExp10 == -323

\* ------------------------------------------------------------- helpers
\* An attribute of the instance is <<>> while the instance does not have it
\* and <<v>> once it was assigned v.
Unset == <<>>
Attr(v) == <<v>>
Val(a) == a[1]
None == "None"
Zero == <<"zero">>

RECURSIVE GCD(_, _)
GCD(a, b) == IF b = 0 THEN a ELSE GCD(b, a % b)

\* the fraction n/d (d > 0, n >= 0) in lowest terms
Rat(n, d) == LET g == GCD(n, d) IN <<n \div g, d \div g>>

BitSeqs(n) == [1..n -> {0, 1}]

VARIABLES
    tasa_bits,          \* self.tasa_bits
    fc,                 \* self.fc
    fs,                 \* self.fs
    duracion_bit,       \* self.duracion_bit, a fraction
    muestras_por_bit,   \* self.muestras_por_bit
    bits,               \* self.bits
    senal_modulada,     \* self.señal_modulada
    senal_ruidosa,      \* self.señal_ruidosa
    bits_recuperados,   \* self.bits_recuperados
    ret,                \* the last call: its name, outcome, value, locals
    historia            \* history: "sin_demodular" until demodulacion_ask first
                        \* completes, then "vigente", and "obsoleto" once
                        \* generar_bits has replaced the bits it decoded

campos == <<tasa_bits, fc, fs, duracion_bit, muestras_por_bit, bits,
            senal_modulada, senal_ruidosa, bits_recuperados>>
vars == <<tasa_bits, fc, fs, duracion_bit, muestras_por_bit, bits,
          senal_modulada, senal_ruidosa, bits_recuperados, ret, historia>>

Ret(op, outcome, value, aux) ==
    [op |-> op, outcome |-> outcome, value |-> value, aux |-> aux]

\* ------------------------------------------------------------ __init__
\* int(frecuencia_muestreo / tasa_bits): true division, then truncation
MuestrasPorBit(frecuencia_muestreo, tasa) == frecuencia_muestreo \div tasa

Init ==
    /\ tasa_bits \in 1..MaxTasa
    /\ fc \in FcValues
    /\ fs \in 1..MaxFs
    /\ duracion_bit = Rat(1, tasa_bits)
    /\ muestras_por_bit = MuestrasPorBit(fs, tasa_bits)
    /\ bits = Unset
    /\ senal_modulada = Unset
    /\ senal_ruidosa = Unset
    /\ bits_recuperados = Unset
    /\ ret = Ret("__init__", "ok", None, None)
    /\ historia = "sin_demodular"

\* ---------------------------------------------------------- generar_bits
GenerarBits(num_bits, drawn) ==
    /\ bits' = Attr(drawn)
    /\ ret' = Ret("generar_bits", "ok", drawn, None)
    /\ historia' = IF historia = "sin_demodular" THEN historia ELSE "obsoleto"
    /\ UNCHANGED <<tasa_bits, fc, fs, duracion_bit, muestras_por_bit,
                   senal_modulada, senal_ruidosa, bits_recuperados>>

\* -------------------------------------------------------- modulacion_ask
\* np.linspace(0, stop, num, endpoint=False): step = stop/num and
\* t[k] = k*step for k = 0..num-1; stop is the fraction <<sn, sd>>.
Linspace(stop, num) ==
    [j \in 1..num |-> Rat((j - 1) * stop[1], stop[2] * num)]

\* len(bits)*self.duracion_bit
TiempoTotal(n) == Rat(n * duracion_bit[1], duracion_bit[2])

\* inicio and fin of bit i (i counted from 0, as enumerate does)
Inicio(i) == i * muestras_por_bit
\* (changed: the window of bit i stops one sample short)
FinCorto(i) == (i + 1) * muestras_por_bit - 1
Fin(i) == (i + 1) * muestras_por_bit

\* amplitud * np.sin(2*np.pi*self.fc*t[k])
Portadora(amplitud, tk) == <<"sin", amplitud, fc, tk>>

\* señal_modulada[inicio:fin] = amplitud*np.sin(2*np.pi*self.fc*t[inicio:fin])
\* (positions inicio..fin-1 counted from 0 are inicio+1..fin counted from 1)
AsignarTramo(s, t, inicio, fin, amplitud) ==
    [k \in 1..Len(s) |->
        IF inicio < k /\ k <= fin THEN Portadora(amplitud, t[k]) ELSE s[k]]

\* the loop "for i, bit in enumerate(bits)", from bit i on
RECURSIVE ModLoop(_, _, _, _, _)
ModLoop(bs, i, amplitud, t, s) ==
    IF i >= Len(bs) THEN s
    ELSE ModLoop(bs, i + 1, amplitud, t,
                 IF bs[i + 1] = 1
                 THEN AsignarTramo(s, t, Inicio(i), Fin(i), amplitud)
                 ELSE s)

Senal(samples, ruido) == [samples |-> samples, ruido |-> ruido]

ModulacionAsk(bs, amplitud) ==
    LET t == Linspace(TiempoTotal(Len(bs)), Len(bs) * muestras_por_bit)
        ceros == [k \in 1..Len(t) |-> Zero]
        s == Senal(ModLoop(bs, 0, amplitud, t, ceros), "exact")
    IN /\ senal_modulada' = Attr(s)
       /\ ret' = Ret("modulacion_ask", "ok", <<s, t>>,
                     [bits |-> bs, amplitud |-> amplitud])
       /\ UNCHANGED <<tasa_bits, fc, fs, duracion_bit, muestras_por_bit, bits,
                      senal_ruidosa, bits_recuperados, historia>>

\* --------------------------------------------------------- agregar_ruido
\* a sample whose float value is exactly 0.0
EsCero(x) == x = Zero \/ x[2] = 0 \/ x[4][1] = 0

TodoCero(sig) ==
    sig.ruido = "exact" /\ \A k \in 1..Len(sig.samples) : EsCero(sig.samples[k])

\* np.mean(señal**2): nan for an empty array
PotenciaSenal(sig) ==
    IF Len(sig.samples) = 0 THEN "nan"
    ELSE IF sig.ruido = "nonfinite" THEN "nan"
    ELSE IF TodoCero(sig) THEN "zero"
    ELSE "pos"

\* 10 ** (snr_db / 10) on Python floats: OverflowError above the float64
\* range, 0.0 below it (classified exactly for snr_db a multiple of 10)
Pow10(snr_db) ==
    IF snr_db > 10 * FloatMaxExp10 THEN "overflow"
    ELSE IF snr_db < 10 * FloatMinExp10 THEN "zero"
    ELSE "pos"

\* potencia_señal / divisor, a numpy float64 division (x/0.0 is nan or inf)
PotenciaRuido(ps, divisor) ==
    IF ps = "nan" THEN "nan"
    ELSE IF divisor = "pos" THEN ps
    ELSE IF ps = "zero" THEN "nan"
    ELSE "inf"

\* np.random.normal(0, np.sqrt(potencia_ruido), n): what the draws are
ClaseRuido(pn) ==
    IF pn = "zero" THEN "exact"
    ELSE IF pn = "pos" THEN "gauss"
    ELSE "nonfinite"

\* señal + ruido
Sumar(sig, clase) ==
    Senal(sig.samples,
          IF Len(sig.samples) = 0 THEN "exact"
          ELSE IF "nonfinite" \in {sig.ruido, clase} THEN "nonfinite"
          ELSE IF "gauss" \in {sig.ruido, clase} THEN "gauss"
          ELSE "exact")

AgregarRuido(sig, snr_db) ==
    LET ps == PotenciaSenal(sig)
        divisor == Pow10(snr_db)
        pn == PotenciaRuido(ps, divisor)
        out == Sumar(sig, ClaseRuido(pn))
    IN IF divisor = "overflow"
       THEN /\ ret' = Ret("agregar_ruido", "OverflowError", None,
                          [ps |-> ps, pn |-> None])
            /\ UNCHANGED <<campos, historia>>
       ELSE /\ senal_ruidosa' = Attr(out)
            /\ ret' = Ret("agregar_ruido", "ok", out,
                          [ps |-> ps, pn |-> pn])
            /\ UNCHANGED <<tasa_bits, fc, fs, duracion_bit, muestras_por_bit,
                           bits, senal_modulada, bits_recuperados, historia>>

\* the bit sequences a caller holds: what generar_bits returned
Secuencias == {Val(a) : a \in {bits} \ {Unset}}

\* the signals a caller holds: what modulacion_ask and agregar_ruido returned
Senales == {Val(a) : a \in {senal_modulada, senal_ruidosa} \ {Unset}}

\* ------------------------------------------------------ demodulacion_ask
\* signal.butter(5, self.fc/(self.fs/2), btype='low') accepts only a
\* critical frequency with 0 < Wn < 1 and raises ValueError otherwise
ButterOk == 0 < 2 * fc /\ 2 * fc < fs

\* ((np.arange(n) + 0.5) * self.muestras_por_bit).astype(int), entry i
\* (i counted from 0): (i + 0.5)*m truncated, that is floor((2i+1)*m / 2)
\* (changed: bit i is sampled where its window ends, not at its midpoint)
PuntoFinal(i) == (i + 1) * muestras_por_bit
PuntoMuestreo(i) == ((2 * i + 1) * muestras_por_bit) \div 2

PuntosMuestreo(n) == [j \in 1..n |-> PuntoMuestreo(j - 1)]

\* señal_filtrada[p] (p counted from 0) of the causal filter started at rest
\* (signal.lfilter hands an empty input back as an empty output):
\* exactly 0.0 while every rectified input up to p is 0.0, otherwise open
Filtrada(sig, p) ==
    IF sig.ruido = "exact" /\ \A k \in 1..(p + 1) : EsCero(sig.samples[k])
    THEN "zero" ELSE "open"

\* (muestras > umbral).astype(int) for one sample; umbral2 = 2*umbral
Decisiones(muestra, umbral2) ==
    IF muestra = "zero" THEN {IF 0 > umbral2 THEN 1 ELSE 0} ELSE {0, 1}

DemodulacionAsk(sig, umbral2) ==
    LET n == Len(Val(bits))
        puntos == PuntosMuestreo(n)
        aux == [largo |-> Len(sig.samples)]
        fallo(e, pts) ==
            /\ ret' = Ret("demodulacion_ask", e, None, aux @@ [puntos |-> pts])
            /\ UNCHANGED <<campos, historia>>
    IN IF ~ButterOk THEN fallo("ValueError", <<>>)
       ELSE IF bits = Unset THEN fallo("AttributeError", <<>>)
       ELSE IF \E j \in 1..n : puntos[j] >= Len(sig.samples)
       THEN fallo("IndexError", puntos)
       ELSE \E r \in BitSeqs(n) :
            /\ \A j \in 1..n :
                 r[j] \in Decisiones(Filtrada(sig, puntos[j]), umbral2)
            /\ bits_recuperados' = Attr(r)
            /\ historia' = "vigente"
            /\ ret' = Ret("demodulacion_ask", "ok", r,
                          aux @@ [puntos |-> puntos])
            /\ UNCHANGED <<tasa_bits, fc, fs, duracion_bit, muestras_por_bit,
                           bits, senal_modulada, senal_ruidosa>>

\* ----------------------------------------------------------- calcular_ber
\* (changed: the guard asks for the wrong attribute, hasattr(self, 'bits'))
TieneBits == bits # Unset
\* hasattr(self, 'bits_recuperados')
TieneRecuperados == bits_recuperados # Unset

\* numpy broadcasting of two 1-d arrays of lengths n and m
Compatibles(n, m) == n = m \/ n = 1 \/ m = 1
LargoComun(n, m) == IF n = m THEN n ELSE IF n = 1 THEN m ELSE n
Elem(a, k) == IF Len(a) = 1 THEN a[1] ELSE a[k]

\* np.sum(a != b) for arrays that broadcast
Errores(a, b) ==
    Cardinality({k \in 1..LargoComun(Len(a), Len(b)) : Elem(a, k) # Elem(b, k)})

\* errores / len(self.bits), a numpy division: /0 gives nan or inf
Cociente(errores, n) ==
    IF n = 0 THEN (IF errores = 0 THEN <<"nan">> ELSE <<"inf">>)
    ELSE <<"ratio", errores, n>>

CalcularBer ==
    LET fallo(e) == /\ ret' = Ret("calcular_ber", e, None, None)
                    /\ UNCHANGED <<campos, historia>>
        devuelve(v) == /\ ret' = Ret("calcular_ber", "ok", v, None)
                       /\ UNCHANGED <<campos, historia>>
    IN IF ~TieneRecuperados THEN fallo("ValueError")
       ELSE IF bits = Unset \/ bits_recuperados = Unset
       THEN fallo("AttributeError")
       ELSE LET a == Val(bits)
                b == Val(bits_recuperados)
            IN IF Compatibles(Len(a), Len(b))
               THEN devuelve(Cociente(Errores(a, b), Len(a)))
               \* shapes that do not broadcast: numpy >= 1.25 raises, older
               \* releases warn and make the comparison the scalar True
               ELSE \/ fallo("ValueError")
                    \/ devuelve(Cociente(1, Len(a)))

Next ==
    \/ \E n \in 0..MaxBits : \E b \in BitSeqs(n) : GenerarBits(n, b)
    \/ \E b \in Secuencias : \E a \in AmpValues : ModulacionAsk(b, a)
    \/ \E s \in Senales : \E snr \in SnrValues : AgregarRuido(s, snr)
    \/ \E s \in Senales : \E u \in UmbralDoble : DemodulacionAsk(s, u)
    \/ CalcularBer

Spec == Init /\ [][Next]_vars

\* modulacion_ask alone, on every generated bit sequence
NextMod ==
    \/ \E n \in 0..MaxBits : \E b \in BitSeqs(n) : GenerarBits(n, b)
    \/ \E b \in Secuencias : \E a \in AmpValues : ModulacionAsk(b, a)

SpecMod == Init /\ [][NextMod]_vars

\* the noiseless link: generate, modulate, demodulate
NextDemod ==
    \/ \E n \in 0..MaxBits : \E b \in BitSeqs(n) : GenerarBits(n, b)
    \/ \E b \in Secuencias : \E a \in AmpValues : ModulacionAsk(b, a)
    \/ \E s \in Senales : \E u \in UmbralDoble : DemodulacionAsk(s, u)

SpecDemod == Init /\ [][NextDemod]_vars

\* every call sequence up to the first completed demodulation: a call is made
\* only while demodulacion_ask has not completed
SinDemodular == historia = "sin_demodular"

NextAntes ==
    \/ SinDemodular /\ \E n \in 0..MaxBits : \E b \in BitSeqs(n) : GenerarBits(n, b)
    \/ SinDemodular /\ \E b \in Secuencias : \E a \in AmpValues : ModulacionAsk(b, a)
    \/ SinDemodular /\ \E s \in Senales : \E snr \in SnrValues : AgregarRuido(s, snr)
    \/ SinDemodular /\ \E s \in Senales : \E u \in UmbralDoble : DemodulacionAsk(s, u)
    \/ SinDemodular /\ CalcularBer

SpecAntes == Init /\ [][NextAntes]_vars

\* ================================================================ claims
Llamada(op) == ret.op = op
Devolvio(op) == ret.op = op /\ ret.outcome = "ok"

\* a/b < c/d and a/b - c/d = 1/q for fractions with positive denominators
Menor(x, y) == x[1] * y[2] < y[1] * x[2]
DistanUno(x, y, q) == (x[1] * y[2] - y[1] * x[2]) * q = x[2] * y[2]

\* C1: while demodulacion_ask has not completed, calcular_ber raises
\* ValueError and leaves every field of the instance as it was.
C1_BerAntesDeDemodular ==
    [][(ret'.op = "calcular_ber" /\ historia = "sin_demodular")
        => (ret'.outcome = "ValueError" /\ UNCHANGED campos)]_vars

C1_Witness ==
    /\ Llamada("calcular_ber") /\ ret.outcome = "ValueError"
    /\ historia = "sin_demodular"
    /\ bits # Unset /\ senal_modulada # Unset /\ senal_ruidosa # Unset

\* C2: every constructed instance has samples_per_bit >= 1 (a sample rate
\* below the bit rate is rejected, never truncated to 0).
C2_MuestrasPorBitPositivo == muestras_por_bit >= 1

\* C3: when the demodulator's bit count differs from the bit count the
\* signal was modulated with, demodulation faults and returns no bits.
\* (Stated for samples_per_bit >= 1 and a demodulator that has bits to decode:
\* a signal of largo samples was modulated from largo/samples_per_bit bits.)
C3_ConteoDistintoFalla ==
    (/\ Devolvio("demodulacion_ask")
     /\ muestras_por_bit >= 1
     /\ Len(Val(bits)) >= 1)
        => Len(Val(bits)) * muestras_por_bit = ret.aux.largo

\* C4: with sample_rate >= bit_rate the time axis has len(bits)*samples_per_bit
\* points, starts at 0, stays below len(bits)*bit_duration and advances by
\* exactly 1/sample_rate.
C4_EjeDeTiempo ==
    (Devolvio("modulacion_ask") /\ fs >= tasa_bits) =>
        LET t == ret.value[2]
            n == Len(ret.aux.bits)
        IN /\ Len(t) = n * muestras_por_bit
           /\ Len(t) > 0 => t[1] = <<0, 1>>
           /\ \A k \in 1..Len(t) : Menor(t[k], <<n, tasa_bits>>)
           /\ \A k \in 1..(Len(t) - 1) : DistanUno(t[k + 1], t[k], fs)

\* C5: the window [i*m, (i+1)*m) of bit i holds only 0 when the bit is 0 and
\* the carrier at each sample's own time stamp when it is 1; the windows are
\* disjoint and cover the waveform.
C5_VentanasDeBit ==
    Devolvio("modulacion_ask") =>
        LET s == ret.value[1].samples
            t == ret.value[2]
            bs == ret.aux.bits
            m == muestras_por_bit
            ventana(i) == {k \in 1..Len(s) : i * m < k /\ k <= (i + 1) * m}
        IN /\ \A k \in 1..Len(s) :
                Cardinality({i \in 0..(Len(bs) - 1) : k \in ventana(i)}) = 1
           /\ \A i \in 0..(Len(bs) - 1) :
                /\ Cardinality(ventana(i)) = m
                /\ \A k \in ventana(i) :
                     s[k] = IF bs[i + 1] = 1
                            THEN <<"sin", ret.aux.amplitud, fc, t[k]>>
                            ELSE Zero

C5_Witness ==
    /\ Devolvio("modulacion_ask")
    /\ muestras_por_bit >= 2
    /\ ret.aux.bits = <<1, 0>>
    /\ senal_modulada = Attr(ret.value[1])

\* C6: with samples_per_bit >= 1 and a matching bit count, every sampling
\* index lies in its own bit's window and inside the filtered signal, so the
\* indexing of demodulacion_ask does not fail.
C6_MuestreoEnVentana ==
    (/\ Llamada("demodulacion_ask")
     /\ ret.outcome \in {"ok", "IndexError"}
     /\ muestras_por_bit >= 1
     /\ Len(Val(bits)) * muestras_por_bit = ret.aux.largo) =>
        /\ ret.outcome = "ok"
        /\ Len(ret.aux.puntos) = Len(Val(bits))
        /\ \A j \in 1..Len(ret.aux.puntos) :
             /\ (j - 1) * muestras_por_bit <= ret.aux.puntos[j]
             /\ ret.aux.puntos[j] < j * muestras_por_bit
             /\ ret.aux.puntos[j] < ret.aux.largo

C6_Witness ==
    /\ Devolvio("demodulacion_ask")
    /\ muestras_por_bit = 3
    /\ Len(Val(bits)) = 2
    /\ ret.aux.largo = 6

\* C7: calcular_ber returns (positions that differ)/length for sequences of
\* equal length, always a value in [0,1], and 0 for identical sequences.
\* (Stated for non-empty stored bits.)
C7_BerEnIntervalo ==
    (Devolvio("calcular_ber") /\ Len(Val(bits)) >= 1) =>
        LET a == Val(bits)
            b == Val(bits_recuperados)
            v == ret.value
        IN /\ v[1] = "ratio"
           /\ 0 <= v[2] /\ v[2] <= v[3]
           /\ Len(a) = Len(b) =>
                v[2] = Cardinality({k \in 1..Len(a) : a[k] # b[k]})
           /\ (a = b /\ Len(a) > 0) => v[2] = 0

\* C8: agregar_ruido on an all-zero signal computes noise power 0 and returns
\* an all-zero signal, whatever snr_db is.
C8_CeroDaCero ==
    (Llamada("agregar_ruido") /\ ret.aux.ps = "zero") =>
        /\ ret.outcome = "ok"
        /\ ret.aux.pn = "zero"
        /\ TodoCero(ret.value)

\* C10: whenever calcular_ber returns a value, the stored bits and the stored
\* recovered bits have the same length and the recovered bits were decoded
\* for the bits now stored.  (Stated for non-empty sequences.)
C10_BerSobreBitsVigentes ==
    (/\ Devolvio("calcular_ber")
     /\ Len(Val(bits)) >= 1
     /\ Len(Val(bits_recuperados)) >= 1) =>
        /\ Len(Val(bits)) = Len(Val(bits_recuperados))
        /\ historia = "vigente"
====
